---- MODULE Spec2Model ----
(***************************************************************************)
(* A model of the NTHU OGA change-detection script in its two copies:      *)
(*   "gh"      : src/.github/scripts/check_nthu.py                         *)
(*   "scripts" : src/scripts/check_nthu.py                                 *)
(* One run of main() is a sequence of steps (ensure directory, scrape,     *)
(* load the previous snapshot, compare, notify, save); runs follow one     *)
(* another and share only the snapshot file (and its .tmp neighbour).      *)
(* The source page, the calendar date, the network and the file system     *)
(* are the environment.  The git shell-outs after a save touch none of     *)
(* the state modelled here and are left out.                               *)
(***************************************************************************)
EXTENDS Integers, Sequences, FiniteSets, TLC

VARIABLES
    variant,        \* which copy of the script runs: "gh" or "scripts"
    page,           \* the source page as the server holds it now
    today,          \* the calendar day (datetime.now()), a day number
    dirExists,      \* whether the directory data/ exists
    files,          \* the files of data/, by path: the snapshot and its .tmp
    pc,             \* the position of the running main(), "idle" between runs
    fetch,          \* what requests.get did in this run
    current_data,   \* main's local current_data
    previous_data,  \* main's local previous_data
    updates,        \* main's local updates
    notified,       \* the items send_notification printed in this run
    exit_code,      \* the exit status of the last finished run, -1 while running
    run,            \* bookkeeping of this run (its snapshot at start, what failed)
    last,           \* bookkeeping of the previous run
    runs,           \* the number of runs started
    reported,       \* history: the (title, url) pairs notified so far that the page
                    \* has listed ever since, with every save since then complete
    fin,            \* the input of a pure function under check
    fout            \* its output

vars == <<variant, page, today, dirExists, files, pc, fetch, current_data,
          previous_data, updates, notified, exit_code, run, last, runs, reported,
          fin, fout>>

mainVars == <<variant, page, today, dirExists, files, pc, fetch, current_data,
              previous_data, updates, notified, exit_code, run, last, runs, reported>>

(***************************************************************************)
(* Bounds of the model.                                                    *)
(***************************************************************************)
MaxRuns == 2
MaxDay == 2
MaxLen == 2
MaxHistoryRuns == 3

(***************************************************************************)
(* Strings.  str.startswith, the `in` test, str.lower and str.strip, on    *)
(* TLA+ strings as sequences of characters.                                *)
(***************************************************************************)
StartsWith(s, p) == Len(s) >= Len(p) /\ SubSeq(s, 1, Len(p)) = p

Contains(s, sub) ==
    \E i \in 1..(Len(s) - Len(sub) + 1) : SubSeq(s, i, i + Len(sub) - 1) = sub

UpperCase == "ABCDEFGHIJKLMNOPQRSTUVWXYZ"
LowerCase == "abcdefghijklmnopqrstuvwxyz"

LowerChar(c) ==
    IF \E i \in 1..Len(UpperCase) : SubSeq(UpperCase, i, i) = c
    THEN LET i == CHOOSE j \in 1..Len(UpperCase) : SubSeq(UpperCase, j, j) = c
         IN  SubSeq(LowerCase, i, i)
    ELSE c

RECURSIVE Lower(_)
Lower(s) ==
    IF s = "" THEN "" ELSE LowerChar(SubSeq(s, 1, 1)) \o Lower(SubSeq(s, 2, Len(s)))

Whitespace == {" ", "\t", "\n", "\r"}

RECURSIVE LStrip(_)
LStrip(s) ==
    IF s # "" /\ SubSeq(s, 1, 1) \in Whitespace THEN LStrip(SubSeq(s, 2, Len(s))) ELSE s

RECURSIVE RStrip(_)
RStrip(s) ==
    IF s # "" /\ SubSeq(s, Len(s), Len(s)) \in Whitespace
    THEN RStrip(SubSeq(s, 1, Len(s) - 1))
    ELSE s

Strip(s) == RStrip(LStrip(s))

(***************************************************************************)
(* datetime.now().strftime("%Y-%m-%d"): the day number d as a date string  *)
(* of January 2025.                                                        *)
(***************************************************************************)
Digits == "0123456789"

TwoDigits(n) ==
    SubSeq(Digits, (n \div 10) + 1, (n \div 10) + 1) \o SubSeq(Digits, (n % 10) + 1, (n % 10) + 1)

StrfDate(d) == "2025-01-" \o TwoDigits(d)

(***************************************************************************)
(* The page.  A page is the sequence, in document order, of its blocks: a  *)
(* block is a div of class mtitle ("mtitle"), any other div ("div"), or    *)
(* the run of links that lie outside every div ("body"); each block holds  *)
(* its <a> elements.  An <a> has its text and, when hasHref, its href.     *)
(* Divs do not nest in the pages modelled.                                 *)
(***************************************************************************)
A(text, href) == [text |-> text, hasHref |-> TRUE, href |-> href]
ANoHref(text) == [text |-> text, hasHref |-> FALSE, href |-> ""]
Block(cls, links) == [cls |-> cls, links |-> links]

\* a.get('href', '')
GetHref(a) == IF a.hasHref THEN a.href ELSE ""

URL == "https://oga.site.nthu.edu.tw/p/403-1524-8945-1.php?Lang=en"
base_url == "https://oga.site.nthu.edu.tw"

Item(title, url, date) == [title |-> title, url |-> url, scrape_date |-> date]

\* The "Fix relative URLs" statement of the primary loop (both copies) and
\* of the fallback loop of the gh copy.
FixRelativeUrl(url) ==
    IF url # "" /\ ~(StartsWith(url, "http://") \/ StartsWith(url, "https://"))
    THEN IF StartsWith(url, "/") THEN base_url \o url ELSE base_url \o "/" \o url
    ELSE url

\* The conditional expression that builds 'url' in the fallback loop of the
\* scripts copy.
FallbackUrl(href) ==
    IF StartsWith(href, "http://") \/ StartsWith(href, "https://")
    THEN href
    ELSE "https://oga.site.nthu.edu.tw" \o (IF StartsWith(href, "/") THEN href ELSE "/" \o href)

\* for div in mtitle_divs: if div.a: ... current_data.append(current_item)
RECURSIVE PrimaryItems(_, _)
PrimaryItems(blocks, date) ==
    IF blocks = <<>> THEN <<>>
    ELSE LET b == Head(blocks)
             rest == PrimaryItems(Tail(blocks), date)
         IN  IF b.cls = "mtitle" /\ b.links # <<>>
             THEN <<Item(Strip(b.links[1].text), FixRelativeUrl(GetHref(b.links[1])), date)>>
                  \o rest
             ELSE rest

MinTextLen == 10
MaxFallbackItems == 10

\* gh copy: for a in links: if text and href and len(text) > 10: ...
RECURSIVE GhFallbackLinks(_, _)
GhFallbackLinks(links, date) ==
    IF links = <<>> THEN <<>>
    ELSE LET a == Head(links)
             text == Strip(a.text)
             href == GetHref(a)
             rest == GhFallbackLinks(Tail(links), date)
         IN  IF text # "" /\ href # "" /\ Len(text) > MinTextLen
             THEN <<Item(text, FixRelativeUrl(href), date)>> \o rest
             ELSE rest

\* gh copy: for div in soup.find_all('div'): links = div.find_all('a') ...
RECURSIVE GhFallbackItems(_, _)
GhFallbackItems(blocks, date) ==
    IF blocks = <<>> THEN <<>>
    ELSE LET b == Head(blocks)
             rest == GhFallbackItems(Tail(blocks), date)
         IN  IF b.cls \in {"mtitle", "div"}
             THEN GhFallbackLinks(b.links, date) \o rest
             ELSE rest

\* scripts copy: for a in soup.find_all('a'): if text and href and
\* ('news' in href.lower() or 'article' in ... or 'post' in ...): ...
RECURSIVE NewsLinks(_, _)
NewsLinks(links, date) ==
    IF links = <<>> THEN <<>>
    ELSE LET a == Head(links)
             href == GetHref(a)
             text == Strip(a.text)
             rest == NewsLinks(Tail(links), date)
         IN  IF /\ text # ""
                /\ href # ""
                /\ \/ Contains(Lower(href), "news")
                   \/ Contains(Lower(href), "article")
                   \/ Contains(Lower(href), "post")
             THEN <<Item(text, FallbackUrl(href), date)>> \o rest
             ELSE rest

\* soup.find_all('a'): every link of the page, in document order
RECURSIVE AllLinks(_)
AllLinks(blocks) ==
    IF blocks = <<>> THEN <<>> ELSE Head(blocks).links \o AllLinks(Tail(blocks))

FirstN(s, n) == SubSeq(s, 1, IF Len(s) < n THEN Len(s) ELSE n)

(***************************************************************************)
(* What requests.get does in a run: it raises a RequestException           *)
(* (connection error, timeout) with a message, or it returns a response    *)
(* with a status and a body; "other_exception" is any other exception      *)
(* raised while the response is handled.                                   *)
(***************************************************************************)
\* resp.raise_for_status() raises for the 4xx and 5xx statuses
IsErrorStatus(status) == status >= 400 /\ status < 600

StatusText(status) ==
    SubSeq(Digits, (status \div 100) + 1, (status \div 100) + 1) \o TwoDigits(status % 100)

\* str(e) of the HTTPError that raise_for_status raises
HttpErrorMsg(status) ==
    StatusText(status) \o (IF status < 500 THEN " Client Error" ELSE " Server Error")

Response(status, body) ==
    [kind |-> "response", status |-> status, body |-> body,
     msg |-> IF IsErrorStatus(status) THEN HttpErrorMsg(status) ELSE ""]
RequestException(msg) == [kind |-> "request_exception", status |-> 0, body |-> <<>>, msg |-> msg]
OtherException(msg) == [kind |-> "other_exception", status |-> 0, body |-> <<>>, msg |-> msg]
NoFetch == [kind |-> "none", status |-> 0, body |-> <<>>, msg |-> ""]

\* scrape_nthu_oga of the gh copy: the status is not looked at, any
\* exception gives [].
ScrapeGh(f, date) ==
    IF f.kind # "response" THEN <<>>
    ELSE LET primary == PrimaryItems(f.body, date)
         IN  IF primary = <<>>
             THEN FirstN(GhFallbackItems(f.body, date), MaxFallbackItems)
             ELSE primary

\* scrape_nthu_oga of the scripts copy: every path returns at least one item.
ScrapeScripts(f, date) ==
    IF f.kind = "request_exception"
    THEN <<Item("Scraper Error: " \o f.msg, URL, date)>>
    ELSE IF f.kind = "other_exception"
    THEN <<Item("Scraper Unexpected Error: " \o f.msg, URL, date)>>
    ELSE IF f.status # 200 /\ IsErrorStatus(f.status)
    THEN <<Item("Scraper Error: " \o f.msg, URL, date)>>
    ELSE LET primary == PrimaryItems(f.body, date)
             news_links == NewsLinks(AllLinks(f.body), date)
             found == IF Len(primary) = 0 /\ f.status = 200 /\ news_links # <<>>
                      THEN news_links
                      ELSE primary
         IN  IF Len(found) > 0
             THEN found
             ELSE <<Item("Scraper Alert: No data found", URL, date)>>

scrape_nthu_oga(v, f, date) == IF v = "gh" THEN ScrapeGh(f, date) ELSE ScrapeScripts(f, date)

(***************************************************************************)
(* compare_data (the same text in both copies).  previous_data is None     *)
(* (isNone) or the loaded list.                                            *)
(***************************************************************************)
None == [isNone |-> TRUE, items |-> <<>>]
Loaded(items) == [isNone |-> FALSE, items |-> items]

\* a comparison that forgets the url
SameItemTitleOnly(current_item, prev_item) == current_item.title = prev_item.title

\* a comparison of the whole records, capture date included
SameItemWithDate(current_item, prev_item) == current_item = prev_item

\* the test of the inner loop
SameItem(current_item, prev_item) ==
    current_item.title = prev_item.title /\ current_item.url = prev_item.url

\* if not previous_data
NoPrevious(previous) == previous.isNone \/ previous.items = <<>>

\* a first-run shortcut that returns the wrong list
compare_data_returns_previous(current, previous) ==
    IF NoPrevious(previous)
    THEN previous.items
    ELSE SelectSeq(current,
                   LAMBDA c : ~\E i \in 1..Len(previous.items) : SameItem(c, previous.items[i]))

compare_data(current, previous) ==
    IF NoPrevious(previous)
    THEN current
    ELSE SelectSeq(current,
                   LAMBDA c : ~\E i \in 1..Len(previous.items) : SameItem(c, previous.items[i]))

(***************************************************************************)
(* Files.  A file is absent, holds a complete JSON document (the data it   *)
(* parses to), or holds a partial document: what open(..., 'w') leaves     *)
(* before json.dump has written everything (an empty or cut-off text,      *)
(* which json.load rejects).                                               *)
(***************************************************************************)
Absent == [kind |-> "absent", data |-> <<>>]
Partial == [kind |-> "partial", data |-> <<>>]
JsonDump(data) == [kind |-> "doc", data |-> data]

filename == "data/nthu_oga_posts.json"

\* a temporary file that is the target itself
temp_filename_is_target == filename

temp_filename == filename \o ".tmp"

snapshot == files[filename]

\* os.path.exists(filename), then json.load under try/except
LoadPrevious(file) ==
    IF file.kind = "absent" THEN None
    ELSE IF file.kind = "doc" THEN Loaded(file.data)
    ELSE None

LoadRaises(file) == file.kind = "partial"

(***************************************************************************)
(* The environment: the pages the server may hold, and what a fetch may    *)
(* do.                                                                     *)
(***************************************************************************)
PageA ==
    << Block("mtitle", <<A("  Visa notice \n", "/p/123.php")>>),
       Block("mtitle", <<A("Scholarship 2025", "https://x.tw/a")>>) >>

\* PageA with one more post on top
PageB == << Block("mtitle", <<A("New housing rules", "news/7.php")>>) >> \o PageA

\* the markup without the mtitle class
PageC ==
    << Block("div", <<A("Home", "/index.php"), A("Scholarship 2025 news", "/news/1")>>),
       Block("body", <<A("Older post", "post/2.php")>>) >>

PageEmpty == <<>>

\* marker divs whose link has no text and no href, or a mailto: href
PageOdd ==
    << Block("mtitle", <<ANoHref("")>>),
       Block("mtitle", <<A("Contact the office", "mailto:oga@x.tw")>>) >>

Pages == {PageA, PageB, PageC, PageEmpty, PageOdd}

\* the body of an error response
ErrorPage == << Block("div", <<A("Back to the home page", "/")>>) >>

FetchOutcomes(p) ==
    { Response(200, p), Response(404, ErrorPage), Response(503, PageEmpty),
      RequestException("timed out"), OtherException("bad markup") }

(***************************************************************************)
(* The state machine of main().                                            *)
(***************************************************************************)
NewRun(file) ==
    [snap0 |-> file,           \* the snapshot file as the run found it
     scraped |-> FALSE,        \* scrape_nthu_oga has returned
     loadRaised |-> FALSE,     \* json.load of the snapshot raised
     atomicFailed |-> FALSE,   \* the temp-file-then-replace attempt raised
     forceFailed |-> FALSE,    \* the direct overwrite raised
     saved |-> "no",           \* which attempt saved: "no", "replace", "force"
     error |-> "none",         \* the exception main's except caught: "none", "makedirs", "save"
     killed |-> FALSE,         \* the run was interrupted
     again |-> {}]             \* history: the pairs of reported this run notified again

NoLast == [valid |-> FALSE, exit_code |-> -1, fetch |-> NoFetch]

Running == pc \notin {"idle", "done"}

\* what compare_data compares of an item
Key(item) == <<item.title, item.url>>
Keys(items) == {Key(items[i]) : i \in 1..Len(items)}

\* the one made-up "Scraper ..." row the scripts copy returns for a run
\* that extracted nothing
Synthetic(items) ==
    /\ Len(items) = 1
    /\ StartsWith(items[1].title, "Scraper ")
    /\ items[1].url = URL

\* the (title, url) pairs a page lists: what the script extracts from it
\* when the fetch succeeds, the made-up row apart
Listed(v, p) ==
    LET items == scrape_nthu_oga(v, Response(200, p), StrfDate(1))
    IN  IF Synthetic(items) THEN {} ELSE Keys(items)

Init ==
    /\ variant \in {"gh", "scripts"}
    /\ page \in Pages
    /\ today = 1
    /\ dirExists = FALSE
    /\ files = [p \in {filename, temp_filename} |-> Absent]
    /\ pc = "idle"
    /\ fetch = NoFetch
    /\ current_data = <<>>
    /\ previous_data = None
    /\ updates = <<>>
    /\ notified = <<>>
    /\ exit_code = -1
    /\ run = NewRun(Absent)
    /\ last = NoLast
    /\ runs = 0
    /\ reported = {}
    /\ fin = <<>>
    /\ fout = <<>>

\* The calendar day changes.  The script reads the date and the page only
\* when it scrapes, so the environment's changes are taken just before that.
Tick ==
    /\ pc = "scrape"
    /\ today < MaxDay
    /\ today' = today + 1
    /\ UNCHANGED <<variant, page, dirExists, files, pc, fetch, current_data, previous_data,
                   updates, notified, exit_code, run, last, runs, reported, fin, fout>>

\* the source page changes
ChangePage ==
    /\ pc = "scrape"
    /\ \E p \in Pages \ {page} :
          /\ page' = p
          /\ reported' = reported \cap Listed(variant, p)
    /\ UNCHANGED <<variant, today, dirExists, files, pc, fetch, current_data, previous_data,
                   updates, notified, exit_code, run, last, runs, fin, fout>>

\* the scheduler starts the script
StartRun(bound) ==
    /\ ~Running
    /\ runs < bound
    /\ runs' = runs + 1
    /\ last' = IF pc = "done" THEN [valid |-> TRUE, exit_code |-> exit_code, fetch |-> fetch]
               ELSE last
    /\ run' = NewRun(snapshot)
    /\ pc' = "ensure_dir"
    /\ fetch' = NoFetch
    /\ current_data' = <<>>
    /\ previous_data' = None
    /\ updates' = <<>>
    /\ notified' = <<>>
    /\ exit_code' = -1
    /\ UNCHANGED <<variant, page, today, dirExists, files, reported, fin, fout>>

Start == StartRun(MaxRuns)

\* except Exception in main: sys.exit(1)
ExitOnException == 1
\* if not current_data: 'return' in the gh copy, sys.exit(1) in the scripts copy
ExitOnNoData(v) == IF v = "gh" THEN 0 ELSE 1

\* ensure_data_directory(); when os.makedirs raises, main's except catches it
EnsureDataDirectory ==
    /\ pc = "ensure_dir"
    /\ \/ /\ dirExists
          /\ pc' = "scrape"
          /\ UNCHANGED <<dirExists, run>>
       \/ /\ ~dirExists
          /\ dirExists' = TRUE
          /\ pc' = "scrape"
          /\ UNCHANGED run
       \/ /\ ~dirExists
          /\ pc' = "except"
          /\ run' = [run EXCEPT !.error = "makedirs"]
          /\ UNCHANGED dirExists
    /\ UNCHANGED <<variant, page, today, files, fetch, current_data, previous_data,
                   updates, notified, exit_code, last, runs, reported, fin, fout>>

\* current_data = scrape_nthu_oga()
Scrape ==
    /\ pc = "scrape"
    /\ \E f \in FetchOutcomes(page) :
          /\ fetch' = f
          /\ current_data' = scrape_nthu_oga(variant, f, StrfDate(today))
    /\ run' = [run EXCEPT !.scraped = TRUE]
    /\ pc' = "scraped"
    /\ UNCHANGED <<variant, page, today, dirExists, files, previous_data, updates,
                   notified, exit_code, last, runs, reported, fin, fout>>

\* if not current_data: ...
NoData ==
    /\ pc = "scraped"
    /\ current_data = <<>>
    /\ pc' = "done"
    /\ exit_code' = ExitOnNoData(variant)
    /\ UNCHANGED <<variant, page, today, dirExists, files, fetch, current_data,
                   previous_data, updates, notified, run, last, runs, reported, fin, fout>>

\* previous_data = None; if os.path.exists(filename): try json.load ...
Load ==
    /\ pc = "scraped"
    /\ current_data # <<>>
    /\ previous_data' = LoadPrevious(snapshot)
    /\ run' = [run EXCEPT !.loadRaised = LoadRaises(snapshot)]
    /\ pc' = "compare"
    /\ UNCHANGED <<variant, page, today, dirExists, files, fetch, current_data, updates,
                   notified, exit_code, last, runs, reported, fin, fout>>

\* updates = compare_data(current_data, previous_data); if updates: ... else: ...
Compare ==
    /\ pc = "compare"
    /\ updates' = compare_data(current_data, previous_data)
    /\ pc' = IF updates' # <<>> THEN "notify" ELSE "save_open_tmp"
    /\ UNCHANGED <<variant, page, today, dirExists, files, fetch, current_data,
                   previous_data, notified, exit_code, run, last, runs, reported, fin, fout>>

\* send_notification(updates)
send_notification(changes) == changes

Notify ==
    /\ pc = "notify"
    /\ notified' = send_notification(updates)
    /\ pc' = "save_open_tmp"
    /\ run' = [run EXCEPT !.again = Keys(notified') \cap reported]
    /\ reported' = reported \cup (Keys(notified') \cap Listed(variant, page))
    /\ UNCHANGED <<variant, page, today, dirExists, files, fetch, current_data,
                   previous_data, updates, exit_code, last, runs, fin, fout>>

(***************************************************************************)
(* save_json_safely(current_data, filename), step by step.  Every file     *)
(* operation may raise (ok = FALSE).                                       *)
(***************************************************************************)
\* a save that keeps what the previous snapshot held
save_data_merged == previous_data.items \o updates

\* the data argument of both calls of save_json_safely in main
save_data == current_data

\* a save that gives up when the first attempt fails
AfterAtomicFailureRaise == "except"

\* except Exception in save_json_safely: "Try one more time with force write"
AfterAtomicFailure == "force_open"

\* a failure of the direct overwrite: "Critical error", raise
AfterForceFailure == "except"

\* os.replace(src, dst)
Replace(fs, src, dst) ==
    IF src = dst THEN fs ELSE [fs EXCEPT ![dst] = fs[src], ![src] = Absent]

\* with open(temp_filename, 'w', encoding='utf-8') as f
SaveOpenTmp ==
    /\ pc = "save_open_tmp"
    /\ \E ok \in BOOLEAN :
          IF ok
          THEN /\ files' = [files EXCEPT ![temp_filename] = Partial]
               /\ pc' = "save_write_tmp"
               /\ UNCHANGED run
          ELSE /\ run' = [run EXCEPT !.atomicFailed = TRUE]
               /\ pc' = AfterAtomicFailure
               /\ UNCHANGED files
    /\ UNCHANGED <<variant, page, today, dirExists, fetch, current_data, previous_data,
                   updates, notified, exit_code, last, runs, reported, fin, fout>>

\* json.dump(data, f, indent=2, ensure_ascii=False) into the temporary file
SaveWriteTmp ==
    /\ pc = "save_write_tmp"
    /\ \E ok \in BOOLEAN :
          IF ok
          THEN /\ files' = [files EXCEPT ![temp_filename] = JsonDump(save_data)]
               /\ pc' = "save_replace"
               /\ UNCHANGED run
          ELSE /\ run' = [run EXCEPT !.atomicFailed = TRUE]
               /\ pc' = AfterAtomicFailure
               /\ UNCHANGED files
    /\ UNCHANGED <<variant, page, today, dirExists, fetch, current_data, previous_data,
                   updates, notified, exit_code, last, runs, reported, fin, fout>>

\* os.replace(temp_filename, filename)
SaveReplace ==
    /\ pc = "save_replace"
    /\ \E ok \in BOOLEAN :
          IF ok
          THEN /\ files' = Replace(files, temp_filename, filename)
               /\ pc' = "saved"
               /\ run' = [run EXCEPT !.saved = "replace"]
          ELSE /\ run' = [run EXCEPT !.atomicFailed = TRUE]
               /\ pc' = AfterAtomicFailure
               /\ UNCHANGED files
    /\ UNCHANGED <<variant, page, today, dirExists, fetch, current_data, previous_data,
                   updates, notified, exit_code, last, runs, reported, fin, fout>>

\* with open(filename, 'w', encoding='utf-8') as f, in the except clause;
\* when it raises: "Critical error", raise
ForceOpen ==
    /\ pc = "force_open"
    /\ \E ok \in BOOLEAN :
          IF ok
          THEN /\ files' = [files EXCEPT ![filename] = Partial]
               /\ pc' = "force_write"
               /\ UNCHANGED run
          ELSE /\ run' = [run EXCEPT !.forceFailed = TRUE, !.error = "save"]
               /\ pc' = AfterForceFailure
               /\ UNCHANGED files
    /\ UNCHANGED <<variant, page, today, dirExists, fetch, current_data, previous_data,
                   updates, notified, exit_code, last, runs, reported, fin, fout>>

\* json.dump(data, f, indent=2, ensure_ascii=False) into the snapshot itself
ForceWrite ==
    /\ pc = "force_write"
    /\ \E ok \in BOOLEAN :
          IF ok
          THEN /\ files' = [files EXCEPT ![filename] = JsonDump(save_data)]
               /\ pc' = "saved"
               /\ run' = [run EXCEPT !.saved = "force"]
          ELSE /\ run' = [run EXCEPT !.forceFailed = TRUE, !.error = "save"]
               /\ pc' = AfterForceFailure
               /\ UNCHANGED files
    /\ UNCHANGED <<variant, page, today, dirExists, fetch, current_data, previous_data,
                   updates, notified, exit_code, last, runs, reported, fin, fout>>

\* except Exception as e in main: ... sys.exit(1)
MainExcept ==
    /\ pc = "except"
    /\ pc' = "done"
    /\ exit_code' = ExitOnException
    /\ reported' = IF run.error = "save" THEN {} ELSE reported
    /\ UNCHANGED <<variant, page, today, dirExists, files, fetch, current_data,
                   previous_data, updates, notified, run, last, runs, fin, fout>>

\* main returns after the save: the process ends with status 0
Finish ==
    /\ pc = "saved"
    /\ pc' = "done"
    /\ exit_code' = 0
    /\ UNCHANGED <<variant, page, today, dirExists, files, fetch, current_data,
                   previous_data, updates, notified, run, last, runs, reported, fin, fout>>

\* The process is interrupted (killed) and ends as it is.  Before the save
\* an interruption leaves nothing behind; it is modelled from the end of
\* the notification on, through every step of save_json_safely.
Kill ==
    /\ pc \in {"save_open_tmp", "save_write_tmp", "save_replace", "force_open", "force_write",
               "saved"}
    /\ pc' = "done"
    /\ exit_code' = 137
    /\ run' = [run EXCEPT !.killed = TRUE]
    /\ reported' = {}
    /\ UNCHANGED <<variant, page, today, dirExists, files, fetch, current_data,
                   previous_data, updates, notified, last, runs, fin, fout>>

Next ==
    \/ Tick
    \/ ChangePage
    \/ Start
    \/ EnsureDataDirectory
    \/ Scrape
    \/ NoData
    \/ Load
    \/ Compare
    \/ Notify
    \/ SaveOpenTmp
    \/ SaveWriteTmp
    \/ SaveReplace
    \/ ForceOpen
    \/ ForceWrite
    \/ MainExcept
    \/ Finish
    \/ Kill

Spec == Init /\ [][Next]_vars

\* The same program over one more run: a pair is reported, a run fails, and
\* a third run follows.
StartHistory == StartRun(MaxHistoryRuns)

NextHistory ==
    \/ Tick
    \/ ChangePage
    \/ StartHistory
    \/ EnsureDataDirectory
    \/ Scrape
    \/ NoData
    \/ Load
    \/ Compare
    \/ Notify
    \/ SaveOpenTmp
    \/ SaveWriteTmp
    \/ SaveReplace
    \/ ForceOpen
    \/ ForceWrite
    \/ MainExcept
    \/ Finish
    \/ Kill

SpecHistory == Init /\ [][NextHistory]_vars

(***************************************************************************)
(* The pure functions on their own: compare_data on every pair of short    *)
(* item lists, and scrape_nthu_oga on every page of one link.              *)
(***************************************************************************)
ItemUniverse ==
    { Item("A", "https://x/a", StrfDate(1)), Item("A", "https://x/a", StrfDate(2)),
      Item("A", "https://x/b", StrfDate(1)), Item("B", "https://x/a", StrfDate(1)),
      Item("B", "https://x/b", StrfDate(2)) }

ItemLists == UNION { [1..n -> ItemUniverse] : n \in 0..MaxLen }

Texts == {"", "Home", "  Visa notice \n", "Scholarship 2025 news"}

Hrefs ==
    { "", "/p/123.php", "123.php", "https://x.tw/a", "http://x.tw/b", "mailto:oga@x.tw",
      "ftp://x.tw/post.pdf", "HTTPS://X.TW/NEWS", "news/7.php", "/article/9",
      "//cdn.x.tw/post" }

Links == {A(t, h) : t \in Texts, h \in Hrefs} \cup {ANoHref(t) : t \in Texts}

CompareInputs ==
    { [op |-> "compare", current |-> c, previous |-> p, v |-> "gh", cls |-> "", link |-> A("", "")] :
        c \in ItemLists, p \in {None} \cup {Loaded(l) : l \in ItemLists} }

ScrapeInputs ==
    { [op |-> "scrape", current |-> <<>>, previous |-> None, v |-> v, cls |-> cls, link |-> a] :
        v \in {"gh", "scripts"}, cls \in {"mtitle", "div", "body"}, a \in Links }

NotApplied == [done |-> FALSE, items |-> <<>>]

InitPure ==
    /\ variant = "gh"
    /\ page = PageEmpty
    /\ today = 1
    /\ dirExists = FALSE
    /\ files = [p \in {filename, temp_filename} |-> Absent]
    /\ pc = "idle"
    /\ fetch = NoFetch
    /\ current_data = <<>>
    /\ previous_data = None
    /\ updates = <<>>
    /\ notified = <<>>
    /\ exit_code = -1
    /\ run = NewRun(Absent)
    /\ last = NoLast
    /\ runs = 0
    /\ reported = {}
    /\ fin \in CompareInputs \cup ScrapeInputs
    /\ fout = NotApplied

ApplyCompare ==
    /\ fin.op = "compare"
    /\ ~fout.done
    /\ fout' = [done |-> TRUE, items |-> compare_data(fin.current, fin.previous)]
    /\ UNCHANGED <<mainVars, fin>>

ApplyScrape ==
    /\ fin.op = "scrape"
    /\ ~fout.done
    /\ fout' = [done |-> TRUE,
                items |-> scrape_nthu_oga(fin.v, Response(200, <<Block(fin.cls, <<fin.link>>)>>),
                                          StrfDate(today))]
    /\ UNCHANGED <<mainVars, fin>>

NextPure ==
    \/ ApplyCompare
    \/ ApplyScrape

SpecPure == InitPure /\ [][NextPure]_vars

(***************************************************************************)
(* Properties.                                                             *)
(***************************************************************************)
\* C1: compare_data returns exactly the items of current, in current's
\* order, whose (title, url) pair is the pair of no item of previous; an
\* absent previous counts as empty, so a first run returns all of current.
C1_CompareData ==
    (fin.op = "compare" /\ fout.done) =>
        /\ fout.items = SelectSeq(fin.current,
                                  LAMBDA c : Key(c) \notin Keys(fin.previous.items))
        /\ fin.previous.isNone => fout.items = fin.current

\* C1 witness: a previous snapshot that holds one of two current items
\* under another capture date, and not the other
C1_Witness ==
    /\ fin.op = "compare"
    /\ fout.done
    /\ ~fin.previous.isNone
    /\ Len(fin.current) = 2
    /\ Len(fout.items) = 1
    /\ fout.items[1] = fin.current[2]
    /\ \E i \in 1..Len(fin.previous.items) :
          /\ Key(fin.previous.items[i]) = Key(fin.current[1])
          /\ fin.previous.items[i] # fin.current[1]

\* the fetch of this run ended in a network error, a timeout or a
\* non-success (4xx, 5xx) HTTP status
FetchFailed ==
    \/ fetch.kind = "request_exception"
    \/ fetch.kind = "response" /\ IsErrorStatus(fetch.status)

\* no item was extracted from the page, even after the fallback
NothingExtracted == run.scraped /\ (current_data = <<>> \/ Synthetic(current_data))

\* C2: a run whose fetch fails, or that extracts no item even after the
\* fallback, emits no notification and leaves the snapshot file as it was
\* before the run.
C2_FailedRunTouchesNothing ==
    (run.scraped /\ (FetchFailed \/ NothingExtracted)) =>
        (notified = <<>> /\ snapshot = run.snap0)

\* C3: after a run whose extraction is non-empty and whose save succeeds,
\* the snapshot file holds exactly that run's current extraction.
C3_SnapshotIsCurrent ==
    (pc \in {"saved", "done"} /\ run.saved # "no") =>
        (current_data # <<>> /\ snapshot = JsonDump(current_data))

\* C3 witness: a finished run that saved, and an item of the previous
\* snapshot that is neither in current nor in the new snapshot
C3_Witness ==
    /\ pc = "done"
    /\ exit_code = 0
    /\ run.saved # "no"
    /\ run.snap0.kind = "doc"
    /\ snapshot.kind = "doc"
    /\ \E i \in 1..Len(run.snap0.data) :
          /\ Key(run.snap0.data[i]) \notin Keys(current_data)
          /\ Key(run.snap0.data[i]) \notin Keys(snapshot.data)

\* C4: the process exits non-zero exactly when the run fails unrecoverably
\* (nothing extracted even after the fallback, an exception caught at the
\* top level, an interruption), and zero on normal completion.
C4_ExitStatus ==
    pc = "done" =>
        (exit_code # 0 <=> (NothingExtracted \/ run.error # "none" \/ run.killed))

\* C5 as claimed: at every point the snapshot path holds the complete
\* previous snapshot or the complete new one.
C5_AlwaysOldOrNew == snapshot \in {run.snap0, JsonDump(save_data)}

\* C5: as long as the temp-file-then-replace attempt has not failed, at
\* every point (an interruption included) the snapshot path holds the
\* complete previous snapshot or the complete new one.
C5_OldOrNewInAtomicAttempt ==
    ~run.atomicFailed => snapshot \in {run.snap0, JsonDump(save_data)}

\* C5 witness: interrupted between the temporary-file write and the rename
C5_Witness ==
    /\ pc = "done"
    /\ run.killed
    /\ ~run.atomicFailed
    /\ files[temp_filename] = JsonDump(current_data)
    /\ snapshot = run.snap0
    /\ snapshot # JsonDump(current_data)

\* C6: when the fetch ends in a network error, a timeout or a non-success
\* HTTP status, scrape_nthu_oga returns an empty sequence.
C6_FailedFetchGivesNothing == (run.scraped /\ FetchFailed) => current_data = <<>>

\* C7: a run that finds a snapshot file it cannot decode goes on as a first
\* run: previous is None, changes is all of current and is what is notified,
\* and when the save does not raise the run ends with status 0 and the
\* snapshot is current.
C7_CorruptSnapshotIsFirstRun ==
    run.loadRaised =>
        /\ previous_data = None
        /\ pc # "compare" => updates = current_data
        /\ pc \notin {"compare", "notify"} => notified = current_data
        /\ (pc = "done" /\ ~run.killed /\ run.error = "none") =>
              (exit_code = 0 /\ snapshot = JsonDump(current_data))

\* C7 witness: a run that found a partial snapshot and completed
C7_Witness ==
    /\ run.loadRaised
    /\ run.snap0 = Partial
    /\ pc = "done"
    /\ exit_code = 0
    /\ notified = current_data
    /\ snapshot = JsonDump(current_data)

\* C8: the direct overwrite is tried only after the temp-file-then-replace
\* attempt failed, and is tried whenever it failed; an error leaves
\* save_json_safely only when the direct overwrite failed too, and then the
\* run ends with status 1; when either attempt succeeds no error leaves it
\* and the snapshot path holds the new snapshot.
C8_SaveFallback ==
    /\ pc \in {"force_open", "force_write"} => run.atomicFailed
    /\ run.saved = "force" => run.atomicFailed
    /\ run.error = "save" =>
          /\ run.atomicFailed /\ run.forceFailed /\ run.saved = "no"
          /\ pc \in {"except", "done"}
          /\ pc = "done" => exit_code = 1
    /\ run.forceFailed => run.error = "save"
    /\ run.saved # "no" => (run.error = "none" /\ snapshot = JsonDump(save_data))
    /\ (pc = "done" /\ ~run.killed /\ run.atomicFailed /\ ~run.forceFailed) =>
          (run.saved = "force" /\ exit_code = 0)

\* C8 witness: the first attempt failed and the direct overwrite saved
C8_Witness ==
    /\ pc = "done"
    /\ run.atomicFailed
    /\ run.saved = "force"
    /\ exit_code = 0
    /\ snapshot = JsonDump(current_data)
    /\ snapshot # run.snap0

\* the previous run completed with status 0 and this run received the same
\* page from the server
SamePageAgain ==
    /\ last.valid
    /\ last.exit_code = 0
    /\ last.fetch.kind = "response"
    /\ last.fetch.status = 200
    /\ run.scraped
    /\ fetch = last.fetch

\* a file's content without the capture dates
Dateless(file) ==
    [kind |-> file.kind, data |-> [i \in 1..Len(file.data) |-> Key(file.data[i])]]

\* C9: the second of two consecutive runs on an unchanged page (the first
\* having completed) finds no changes and notifies nothing, and when it
\* completes the snapshot is as the first run left it, capture dates apart.
C9_NoOpRun ==
    SamePageAgain =>
        /\ updates = <<>>
        /\ notified = <<>>
        /\ (pc = "done" /\ exit_code = 0) => Dateless(snapshot) = Dateless(run.snap0)

\* C9 witness: a second run on another day, which only refreshed the dates
C9_Witness ==
    /\ SamePageAgain
    /\ pc = "done"
    /\ exit_code = 0
    /\ run.saved # "no"
    /\ current_data # <<>>
    /\ snapshot # run.snap0
    /\ Dateless(snapshot) = Dateless(run.snap0)

\* an absolute URL starts with a scheme: a letter, then letters, digits,
\* "+", "-" or ".", then ":"
IsLetter(c) == Contains(UpperCase, c) \/ Contains(LowerCase, c)
IsSchemeChar(c) == IsLetter(c) \/ Contains(Digits, c) \/ c \in {"+", "-", "."}

HasScheme(s) ==
    \E i \in 2..Len(s) :
        /\ SubSeq(s, i, i) = ":"
        /\ IsLetter(SubSeq(s, 1, 1))
        /\ \A j \in 2..(i - 1) : IsSchemeChar(SubSeq(s, j, j))

\* the url the claim gives for an href
ClaimedUrl(href) ==
    IF HasScheme(href) THEN href
    ELSE IF StartsWith(href, "/") THEN base_url \o href
    ELSE base_url \o "/" \o href

\* C10: in the primary and the fallback path alike, the url stored for a
\* link is its href unchanged when the href starts with a scheme, the base
\* origin followed by the href when it starts with a slash, and the base
\* origin, a slash and the href otherwise.
C10_UrlResolution ==
    (fin.op = "scrape" /\ fout.done) =>
        \A i \in 1..Len(fout.items) :
            Synthetic(fout.items) \/ fout.items[i].url = ClaimedUrl(GetHref(fin.link))

\* a title as the claim describes it: not empty and with no whitespace
\* around it
TrimmedNonEmpty(title) == title # "" /\ Strip(title) = title

\* C11: every item scrape_nthu_oga returns has a non-empty title with no
\* whitespace around it and a url that is an absolute URL, whatever the
\* page holds, a marker link with empty text or with a missing or empty
\* href included.
C11_ItemsWellFormed ==
    (fin.op = "scrape" /\ fout.done) =>
        \A i \in 1..Len(fout.items) :
            /\ TrimmedNonEmpty(fout.items[i].title)
            /\ HasScheme(fout.items[i].url)

\* C12: over any sequence of runs, a (title, url) pair that a run has
\* notified is not notified again by a later run while the page has listed
\* it ever since, even when runs in between had a failed fetch, a
\* non-success HTTP response or an extraction that found nothing.  (Runs
\* that were interrupted or whose save failed are left out: reported is
\* emptied there.)
C12_ReportedOnce == run.again = {}

====
